---- MODULE Spec2Model ----
\* Model of streamlit_app.py (Cylindo CSV Generator): the generation run that
\* is started by the "Generér CSV" button.  One run loads the reference
\* workbook, walks the selected products, groups each product's features into
\* combinable entities, enumerates the Cartesian product per frame and resolves
\* an Item No for every export row.
EXTENDS Integers, Sequences, FiniteSets, TLC

\* ---------------------------------------------------------------- bounds
MaxProducts == 2      \* longest product selection
MaxRefRows == 2       \* longest reference table
MaxAllow == 2         \* largest material allow-list
MaxFrames == 2        \* most angles selected

\* ------------------------------------------------------------- constants
Threshold == 85       \* find_best_product_match_index(..., threshold=85)
Size == 1500          \* st.sidebar.number_input("Size (px)", value=1500)
None == 0             \* Python None where the code holds a row position (positions are 1-based here)
NoValue == ""         \* dict.get() of an absent key; falsy like None
NaN == "<NaN>"        \* an empty spreadsheet cell

MANUAL_EXCLUSIVE_SETS == << {"TEXTILE", "LEATHER"} >>
RequiredColumns == {"Item No", "Item Name", "Base Color", "Color (lookup InRiver)"}

\* ------------------------------------------------------- text primitives
\* Python strings are handled character by character; Chars gives the
\* characters of the strings that occur as option codes and workbook cells.
Chars(s) ==
    IF s = "Natural Oak Finish" THEN <<"N", "a", "t", "u", "r", "a", "l", " ", "O", "a", "k", " ", "F", "i", "n", "i", "s", "h">> ELSE
    IF s = "Walnut" THEN <<"W", "a", "l", "n", "u", "t">> ELSE
    IF s = "Oak" THEN <<"O", "a", "k">> ELSE
    IF s = "Dark-Grey 01" THEN <<"D", "a", "r", "k", "-", "G", "r", "e", "y", " ", "0", "1">> ELSE
    IF s = "Dark Grey 02" THEN <<"D", "a", "r", "k", " ", "G", "r", "e", "y", " ", "0", "2">> ELSE
    IF s = "darkgrey01" THEN <<"d", "a", "r", "k", "g", "r", "e", "y", "0", "1">> ELSE
    IF s = "L1" THEN <<"L", "1">> ELSE
    IF s = "t3" THEN <<"t", "3">> ELSE
    IF s = "l2" THEN <<"l", "2">> ELSE
    <<>>

UpperCase == <<"A","B","C","D","E","F","G","H","I","J","K","L","M","N","O","P","Q","R","S","T","U","V","W","X","Y","Z">>
LowerCase == <<"a","b","c","d","e","f","g","h","i","j","k","l","m","n","o","p","q","r","s","t","u","v","w","x","y","z">>
Digits == {"0","1","2","3","4","5","6","7","8","9"}

Range(seq) == { seq[k] : k \in DOMAIN seq }

\* str.lower() on one character
LowerChar(c) ==
    IF \E k \in DOMAIN UpperCase : UpperCase[k] = c
    THEN LowerCase[CHOOSE k \in DOMAIN UpperCase : UpperCase[k] = c]
    ELSE c

\* str.lower()
Lower(cs) == [k \in DOMAIN cs |-> LowerChar(cs[k])]

NotSpace(c) == c # " "

\* the regular expression class \w
IsWordChar(c) == c \in Range(UpperCase) \cup Range(LowerCase) \cup Digits \cup {"_"}

\* str.replace(' ', '')
RemoveSpaces(cs) == SelectSeq(cs, NotSpace)

\* .replace(' ', '').lower() : the normalisation both sides of the material
\* comparison go through
NormalizeMaterial(cs) == Lower(RemoveSpaces(cs))

\* re.findall(r'\w+', text): the maximal runs of word characters, as a set
RECURSIVE FindWords(_, _, _)
FindWords(cs, k, cur) ==
    IF k > Len(cs)
    THEN (IF cur = <<>> THEN {} ELSE {cur})
    ELSE IF IsWordChar(cs[k])
         THEN FindWords(cs, k + 1, Append(cur, cs[k]))
         ELSE (IF cur = <<>> THEN {} ELSE {cur}) \cup FindWords(cs, k + 1, <<>>)

\* get_word_set inside load_raw_data
get_word_set(text) ==
    IF text = NaN THEN {} ELSE FindWords(Lower(Chars(text)), 1, <<>>)

\* ------------------------------------------------- upstream catalogue
\* What GET .../products/{code}/configuration answers for each product code
\* of the customer: "enabled" and the list of features with their options.
Feature(code, options) == [code |-> code, options |-> options]

Catalogue(prod) ==
    IF prod = "CH_01" THEN
        [enabled |-> TRUE,
         features |-> << Feature("BASE", <<"Natural Oak Finish", "Walnut">>),
                         Feature("TEXTILE", <<"Dark-Grey 01", "Dark Grey 02">>),
                         Feature("LEATHER", <<"L1">>) >>]
    ELSE IF prod = "SOFA_123" THEN
        [enabled |-> TRUE,
         features |-> << Feature("BASE", <<"Oak">>),
                         Feature("TEXTILE", <<"t3">>),
                         Feature("LEATHER", <<"l2">>),
                         Feature("LEGS", <<>>) >>]
    ELSE IF prod = "LAMP_7" THEN
        [enabled |-> TRUE,
         features |-> << Feature("BASE", <<"Walnut">>),
                         Feature("TEXTILE", <<"Dark Grey 02", "t3">>) >>]
    ELSE IF prod = "CUSH_5" THEN
        [enabled |-> TRUE,
         features |-> << Feature("TEXTILE", <<"t3">>),
                         Feature("LEATHER", <<"l2">>) >>]
    ELSE IF prod = "BOX_4" THEN
        [enabled |-> TRUE,
         features |-> << Feature("LEGS", <<>>) >>]
    ELSE IF prod = "OLD_9" THEN
        [enabled |-> FALSE,
         features |-> << Feature("BASE", <<"Oak">>) >>]
    ELSE
        [enabled |-> TRUE, features |-> <<>>]

\* fetch_product_codes: the Production product codes of the customer
product_codes == {"CH_01", "SOFA_123", "LAMP_7", "CUSH_5", "BOX_4", "OLD_9", "RUG_3"}

\* get_material_map: the TEXTILE and LEATHER option codes of the selected
\* products, which is what the material filter offers
get_material_map(product_list) ==
    UNION { UNION { Range(Catalogue(p).features[k].options) :
                    k \in { j \in DOMAIN Catalogue(p).features :
                            Catalogue(p).features[j].code \in {"TEXTILE", "LEATHER"} } } :
            p \in Range(product_list) }

\* The angles offered are 1..36; the selections used here are the first
\* angles of the ones the help text names (front, back, two obliques)
FrameList == <<1, 17, 4, 12>>
FrameChoices == { SubSeq(FrameList, 1, n) : n \in 0..MaxFrames }

\* ---------------------------------------------------- reference workbook
RefRecord(no, name, base, color) ==
    [ItemNo |-> no, ItemName |-> name, BaseColor |-> base, Color |-> color]

RefRecordPool ==
    { RefRecord("IT-A", "CH 011", "Oak", "Dark Grey 02"),
      RefRecord("IT-B", "CH 01 Chair", "Walnut", "darkgrey01"),
      RefRecord("IT-C", "CH 01 Chair", "Oak", "Dark Grey 02"),
      RefRecord("IT-D", "Sofa 123", NaN, "t3") }

\* sequences without repetition, of length at most n, over the set S
RECURSIVE SeqsUpTo(_, _)
SeqsUpTo(S, n) ==
    IF n = 0 THEN { <<>> }
    ELSE LET shorter == SeqsUpTo(S, n - 1)
         IN  shorter \cup { Append(q, x) : q \in { r \in shorter : Len(r) = n - 1 },
                                           x \in S }

NoRepeat(q) == \A a, b \in DOMAIN q : a # b => q[a] # q[b]

\* raw-data.xlsx as found on disk: absent, or a sheet with its columns and records
Sheet(columns, records) == [exists |-> TRUE, columns |-> columns, records |-> records]

UnusableFiles ==
    { [exists |-> FALSE, columns |-> {}, records |-> <<>>] }
    \cup { Sheet(RequiredColumns \ {c}, <<>>) : c \in RequiredColumns }

\* every sheet of at most MaxRefRows different records of the pool
RefFiles ==
    UnusableFiles
    \cup { Sheet(RequiredColumns, q) :
           q \in { r \in SeqsUpTo(RefRecordPool, MaxRefRows) : NoRepeat(r) } }

\* one sheet, for the runs that vary the sidebar instead of the workbook
OneSheet ==
    Sheet(RequiredColumns, << RefRecord("IT-B", "CH 01 Chair", "Walnut", "darkgrey01"),
                              RefRecord("IT-C", "CH 01 Chair", "Oak", "Dark Grey 02") >>)

\* one record of the sheet with the two derived matching columns
LoadedRecord(r) ==
    [ItemNo |-> r.ItemNo, ItemName |-> r.ItemName,
     BaseColor |-> r.BaseColor, Color |-> r.Color,
     normalized_material_color |-> NormalizeMaterial(Chars(r.Color)),
     base_color_word_set |-> get_word_set(r.BaseColor)]

\* variant: "Item Name" is not among the columns asked for
load_raw_data_without_name(file) ==
    IF ~file.exists THEN [ok |-> FALSE, df |-> <<>>]
    ELSE IF ~((RequiredColumns \ {"Item Name"}) \subseteq file.columns) THEN [ok |-> FALSE, df |-> <<>>]
    ELSE [ok |-> TRUE,
          df |-> [k \in DOMAIN file.records |-> LoadedRecord(file.records[k])]]

\* load_raw_data: None for a missing file or a missing required column, else
\* the sheet with the derived columns
load_raw_data(file) ==
    IF ~file.exists THEN [ok |-> FALSE, df |-> <<>>]
    ELSE IF ~(RequiredColumns \subseteq file.columns) THEN [ok |-> FALSE, df |-> <<>>]
    ELSE [ok |-> TRUE,
          df |-> [k \in DOMAIN file.records |-> LoadedRecord(file.records[k])]]

\* ------------------------------------------------------ identity matcher
\* fuzz.token_set_ratio(api_product_name, item_name) of the thefuzz library,
\* tabulated for the product codes and item names above (0..100).
token_set_ratio(api_product_name, item_name) ==
    IF api_product_name = "CH_01" /\ item_name = "CH 01 Chair" THEN 100
    ELSE IF api_product_name = "CH_01" /\ item_name = "CH 011" THEN 91
    ELSE IF api_product_name = "SOFA_123" /\ item_name = "Sofa 123" THEN 100
    ELSE 30

Scores(api_product_name, df) ==
    [k \in DOMAIN df |-> token_set_ratio(api_product_name, df[k].ItemName)]

MaxOf(S) == CHOOSE m \in S : \A x \in S : x <= m

\* Series.idxmax(): the first position holding the maximum
IdxMax(scores) ==
    CHOOSE k \in DOMAIN scores :
        /\ scores[k] = MaxOf(Range(scores))
        /\ \A j \in DOMAIN scores : scores[j] = scores[k] => k <= j

find_best_product_match_index(api_product_name, df) ==
    LET scores == Scores(api_product_name, df)
    IN  IF DOMAIN scores = {} \/ MaxOf(Range(scores)) < Threshold
        THEN None
        ELSE IdxMax(scores)

\* material colour: exact match of the two normalised codes
material_match(api_material_color, candidate_row) ==
    candidate_row.normalized_material_color = NormalizeMaterial(Chars(api_material_color))

\* base colour: the sheet's words are a non-empty subset of the API's words
base_match(api_base_color, candidate_row) ==
    LET base_color_api_words == FindWords(Lower(Chars(api_base_color)), 1, <<>>)
        excel_base_words == candidate_row.base_color_word_set
    IN  Cardinality(excel_base_words) > 0 /\ excel_base_words \subseteq base_color_api_words

check_color_match(api_base_color, api_material_color, candidate_row) ==
    IF api_base_color = NoValue \/ api_material_color = NoValue THEN FALSE
    ELSE material_match(api_material_color, candidate_row)
         /\ base_match(api_base_color, candidate_row)

\* ---------------------------------------------------- exclusivity grouper
\* features_by_code: the features that have options, by code (a later feature
\* of the same code replaces an earlier one)
OptionsOf(features, code) ==
    LET last == CHOOSE k \in DOMAIN features :
                    /\ features[k].code = code /\ features[k].options # <<>>
                    /\ \A j \in DOMAIN features :
                          (features[j].code = code /\ features[j].options # <<>>) => j <= k
    IN  features[last].options

product_feature_codes(features) ==
    { features[k].code : k \in { j \in DOMAIN features : features[j].options # <<>> } }

\* the orders in which iterating a Python set of feature codes can yield them
IterationOrders(S) == { q \in [1..Cardinality(S) -> S] : Range(q) = S }

RECURSIVE Concat(_)
Concat(seqs) == IF seqs = <<>> THEN <<>> ELSE Head(seqs) \o Concat(Tail(seqs))

\* variant: a set is grouped only when more than two of its features are present
GroupAppliesAboveTwo(intersecting_features) == Cardinality(intersecting_features) > 2

\* len(intersecting_features) > 1
GroupApplies(intersecting_features) == Cardinality(intersecting_features) > 1

\* variant: the allow-list is not consulted
KeepEveryOption(opt_code, material_codes) == TRUE

\* not selected_material_codes or opt['code'] in selected_material_codes
KeepOption(opt_code, material_codes) ==
    material_codes = {} \/ opt_code \in material_codes

\* [(code, opt) for opt in features_by_code[code]["options"]]
options_with_key(features, code) ==
    [k \in DOMAIN OptionsOf(features, code) |-> <<code, OptionsOf(features, code)[k]>>]

\* group_options_with_keys for one exclusive set, its features visited in `order`
group_options_with_keys(features, order, material_codes) ==
    LET Kept(pair) == KeepOption(pair[2], material_codes)
    IN  Concat([k \in DOMAIN order |->
                   SelectSeq(options_with_key(features, order[k]), Kept)])

\* the feature codes put into processed_codes
processed_codes(features) ==
    UNION { product_feature_codes(features) \cap MANUAL_EXCLUSIVE_SETS[k] :
            k \in { j \in DOMAIN MANUAL_EXCLUSIVE_SETS :
                    GroupApplies(product_feature_codes(features) \cap MANUAL_EXCLUSIVE_SETS[j]) } }

standalone_codes(features) == product_feature_codes(features) \ processed_codes(features)

\* one choice of iteration order for every set the grouping iterates:
\* group[k] for the intersection with the k-th exclusive set, alone for standalone_codes
SetOrders(features) ==
    [group : [DOMAIN MANUAL_EXCLUSIVE_SETS ->
                 UNION { IterationOrders(product_feature_codes(features) \cap MANUAL_EXCLUSIVE_SETS[k]) :
                         k \in DOMAIN MANUAL_EXCLUSIVE_SETS }],
     alone : IterationOrders(standalone_codes(features))]

ValidOrders(features, orders) ==
    \A k \in DOMAIN MANUAL_EXCLUSIVE_SETS :
        Range(orders.group[k]) = product_feature_codes(features) \cap MANUAL_EXCLUSIVE_SETS[k]
        /\ Len(orders.group[k]) = Cardinality(product_feature_codes(features) \cap MANUAL_EXCLUSIVE_SETS[k])

NonEmpty(entity) == entity # <<>>

\* all_combinable_entities as built by the two grouping loops
CombinableEntities(features, material_codes, orders) ==
    LET groups == [k \in DOMAIN MANUAL_EXCLUSIVE_SETS |->
                      IF GroupApplies(product_feature_codes(features) \cap MANUAL_EXCLUSIVE_SETS[k])
                      THEN group_options_with_keys(features, orders.group[k], material_codes)
                      ELSE <<>>]
        alone  == [k \in DOMAIN orders.alone |-> options_with_key(features, orders.alone[k])]
    IN  SelectSeq(groups, NonEmpty) \o SelectSeq(alone, NonEmpty)

\* ---------------------------------------------------- combination enumerator
\* itertools.product(*entities): the last entity varies fastest
RECURSIVE CartesianProduct(_)
CartesianProduct(entities) ==
    IF entities = <<>> THEN << <<>> >>
    ELSE LET rest == CartesianProduct(Tail(entities))
             first == Head(entities)
         IN  Concat([a \in DOMAIN first |->
                        [b \in DOMAIN rest |-> <<first[a]>> \o rest[b]]])

\* variant: the empty entity list is not caught before the enumeration
NoEntitiesUnchecked(entities) == FALSE

\* if not all_combinable_entities: ... continue
NoEntities(entities) == entities = <<>>

\* ------------------------------------------------------ export row builder
\* row.get(key) over the feature columns written by the combination
RowGet(combo, key) ==
    IF \E k \in DOMAIN combo : combo[k][1] = key
    THEN combo[CHOOSE k \in DOMAIN combo :
                   combo[k][1] = key /\ \A j \in DOMAIN combo : combo[j][1] = key => j <= k][2]
    ELSE NoValue

\* row.get("TEXTILE") or row.get("LEATHER")
ApiMaterialColor(combo) ==
    IF RowGet(combo, "TEXTILE") # NoValue THEN RowGet(combo, "TEXTILE")
    ELSE RowGet(combo, "LEATHER")

ResolveItemNo(combo, best, df) ==
    IF best # None /\ check_color_match(RowGet(combo, "BASE"), ApiMaterialColor(combo), df[best])
    THEN df[best].ItemNo
    ELSE ""

BuildRow(prod, frame, combo, best, df) ==
    [Product  |-> prod,
     Frame    |-> frame,
     size     |-> Size,
     ImageURL |-> [product |-> prod, frame |-> frame, size |-> Size,
                   feature_params |-> combo],
     cols     |-> combo,
     ItemNo   |-> ResolveItemNo(combo, best, df)]

\* the rows of one product: for frame in selected_frames: for combo in product(...)
ProductRows(prod, frames, entities, best, df) ==
    LET combos == CartesianProduct(entities)
    IN  Concat([f \in DOMAIN frames |->
                   [c \in DOMAIN combos |-> BuildRow(prod, frames[f], combos[c], best, df)]])

\* DataFrame(rows).columns with "Item No" moved to position 1: the keys in
\* order of first appearance
RECURSIVE FeatureColumns(_, _)
FeatureColumns(rs, seen) ==
    IF rs = <<>> THEN seen
    ELSE LET IsNew(pair) == pair[1] \notin Range(seen)
             fresh == SelectSeq(Head(rs).cols, IsNew)
         IN  FeatureColumns(Tail(rs), seen \o [k \in DOMAIN fresh |-> fresh[k][1]])

ExportColumns(rs) ==
    <<"Product", "Item No", "Frame", "size", "ImageURL">> \o FeatureColumns(rs, <<>>)

\* ------------------------------------------------------------------ state
VARIABLES
    selected_products,        \* sidebar: the product selection, in order
    selected_frames,          \* sidebar: the angles
    selected_material_codes,  \* sidebar: the material allow-list
    raw_file,                 \* raw-data.xlsx on disk
    pc,                       \* where the script is
    raw_data_df,              \* result of load_raw_data
    i,                        \* position of the generate loop in selected_products
    product_match_cache,      \* product code -> best_match_index
    best_match_index,         \* of the iteration last run
    all_combinable_entities,  \* of the iteration last run
    rows,                     \* export rows collected so far
    csv_columns,              \* columns of the exported table
    shown,                    \* messages and widgets rendered by the run
    fetches,                  \* configuration requests sent by the generate loop
    scans,                    \* calls of find_best_product_match_index, per product code
    outcomes,                 \* per finished iteration: product, how it ended, rows added
    run,                      \* 1 for the first click on the button, 2 for the second
    prev_rows, prev_columns, prev_outcomes   \* what the first run produced

vars == << selected_products, selected_frames, selected_material_codes, raw_file,
           pc, raw_data_df, i, product_match_cache, best_match_index,
           all_combinable_entities, rows, csv_columns, shown, fetches, scans,
           outcomes, run, prev_rows, prev_columns, prev_outcomes >>

inputs == << selected_products, selected_frames, selected_material_codes, raw_file >>
previous == << prev_rows, prev_columns, prev_outcomes >>

ProductSelections ==
    UNION { [1..n -> product_codes] : n \in 0..MaxProducts }

MaterialSelections(product_list) ==
    { m \in SUBSET get_material_map(product_list) : Cardinality(m) <= MaxAllow }

NoDf == [ok |-> FALSE, df |-> <<>>]

Fresh ==
    /\ pc = "idle"
    /\ raw_data_df = NoDf
    /\ i = 1
    /\ product_match_cache = <<>>
    /\ best_match_index = None
    /\ all_combinable_entities = <<>>
    /\ rows = <<>>
    /\ csv_columns = <<>>
    /\ shown = {}
    /\ fetches = 0
    /\ scans = [p \in product_codes |-> 0]
    /\ outcomes = <<>>
    /\ run = 1
    /\ prev_rows = <<>>
    /\ prev_columns = <<>>
    /\ prev_outcomes = <<>>

\* the sidebar varies (products, angles, material filter); the workbook is
\* unusable or the one sheet
Init ==
    /\ selected_products \in ProductSelections
    /\ selected_frames \in FrameChoices
    /\ selected_material_codes \in MaterialSelections(selected_products)
    /\ raw_file \in UnusableFiles \cup {OneSheet}
    /\ Fresh

\* the workbook varies; no material filter is set
InitMatch ==
    /\ selected_products \in ProductSelections
    /\ selected_frames \in FrameChoices
    /\ selected_material_codes = {}
    /\ raw_file \in RefFiles
    /\ Fresh

\* ------------------------------------------------- the button is clicked
loopvars == << raw_data_df, i, product_match_cache, best_match_index,
               all_combinable_entities, rows, csv_columns, fetches, scans, outcomes >>

\* if not selected_products: st.warning(...)
GenerateNoProducts ==
    /\ pc = "idle"
    /\ selected_products = <<>>
    /\ pc' = "warned"
    /\ shown' = {"warning_select_product"}
    /\ UNCHANGED << inputs, loopvars, run, previous >>

\* elif not selected_frames: st.warning(...)
GenerateNoFrames ==
    /\ pc = "idle"
    /\ selected_products # <<>>
    /\ selected_frames = <<>>
    /\ pc' = "warned"
    /\ shown' = {"warning_select_frame"}
    /\ UNCHANGED << inputs, loopvars, run, previous >>

\* raw_data_df is None: st.stop()
GenerateStop ==
    /\ pc = "idle"
    /\ selected_products # <<>>
    /\ selected_frames # <<>>
    /\ ~load_raw_data(raw_file).ok
    /\ raw_data_df' = load_raw_data(raw_file)
    /\ pc' = "stopped"
    /\ shown' = {"error_raw_data"}
    /\ UNCHANGED << inputs, i, product_match_cache, best_match_index,
                    all_combinable_entities, rows, csv_columns, fetches, scans,
                    outcomes, run, previous >>

\* the reference table is loaded: rows = [], product_match_cache = {}
GenerateStart ==
    /\ pc = "idle"
    /\ selected_products # <<>>
    /\ selected_frames # <<>>
    /\ load_raw_data(raw_file).ok
    /\ raw_data_df' = load_raw_data(raw_file)
    /\ pc' = "loop"
    /\ shown' = IF selected_material_codes # {} THEN {"info_filter"} ELSE {}
    /\ rows' = <<>>
    /\ product_match_cache' = <<>>
    /\ i' = 1
    /\ UNCHANGED << inputs, best_match_index, all_combinable_entities, csv_columns,
                    fetches, scans, outcomes, run, previous >>

\* ------------------------------------------------ one loop iteration
InLoop == pc = "loop" /\ i <= Len(selected_products)
CurProd == selected_products[i]

\* product_match_cache.get(prod)
Cached ==
    IF CurProd \in DOMAIN product_match_cache THEN product_match_cache[CurProd] ELSE None

\* if best_match_index is None: find it and store it
Best ==
    IF Cached = None THEN find_best_product_match_index(CurProd, raw_data_df.df) ELSE Cached

MatchStep ==
    /\ best_match_index' = Best
    /\ product_match_cache' =
          IF Cached = None THEN (CurProd :> Best) @@ product_match_cache
          ELSE product_match_cache
    /\ scans' = IF Cached = None THEN [scans EXCEPT ![CurProd] = @ + 1] ELSE scans

\* variant: the handler leaves the loop instead of continuing
BreakIndex(k) == Len(selected_products) + 1

\* `continue`: on to the next product
ContinueIndex(k) == k + 1

Outcome(kind, added) == [prod |-> CurProd, kind |-> kind, added |-> added]

\* the upstream service answers the second run as it answered the first
MayFail == IF run = 1 THEN TRUE ELSE prev_outcomes[i].kind = "error"
MayAnswer == IF run = 1 THEN TRUE ELSE prev_outcomes[i].kind # "error"

Skip(kind, message) ==
    /\ InLoop
    /\ MatchStep
    /\ fetches' = fetches + 1
    /\ i' = ContinueIndex(i)
    /\ shown' = shown \cup message
    /\ outcomes' = Append(outcomes, Outcome(kind, 0))
    /\ UNCHANGED << inputs, pc, raw_data_df, rows, csv_columns, run, previous >>

\* requests.get / raise_for_status raise RequestException
FetchError ==
    /\ InLoop
    /\ MayFail
    /\ Skip("error", {"error_fetch"})
    /\ UNCHANGED all_combinable_entities

\* if not cfg.get("enabled", False): continue
SkipDisabled ==
    /\ InLoop
    /\ MayAnswer
    /\ ~Catalogue(CurProd).enabled
    /\ Skip("disabled", {})
    /\ UNCHANGED all_combinable_entities

\* if not features_list: st.warning(...); continue
SkipNoFeatures ==
    /\ InLoop
    /\ MayAnswer
    /\ Catalogue(CurProd).enabled
    /\ Catalogue(CurProd).features = <<>>
    /\ Skip("no_features", {"warning_no_features"})
    /\ UNCHANGED all_combinable_entities

Grouped == InLoop /\ MayAnswer /\ Catalogue(CurProd).enabled /\ Catalogue(CurProd).features # <<>>

\* if not all_combinable_entities: st.info(...); continue
SkipNoCombos ==
    /\ Grouped
    /\ \E orders \in SetOrders(Catalogue(CurProd).features) :
          /\ ValidOrders(Catalogue(CurProd).features, orders)
          /\ LET entities == CombinableEntities(Catalogue(CurProd).features,
                                                selected_material_codes, orders)
             IN  /\ NoEntities(entities)
                 /\ all_combinable_entities' = entities
    /\ Skip("no_combos", {"info_no_combos"})

\* the frame and combination loops append the product's rows
EmitRows ==
    /\ Grouped
    /\ MatchStep
    /\ \E orders \in SetOrders(Catalogue(CurProd).features) :
          /\ ValidOrders(Catalogue(CurProd).features, orders)
          /\ LET entities == CombinableEntities(Catalogue(CurProd).features,
                                                selected_material_codes, orders)
                 new == ProductRows(CurProd, selected_frames, entities, Best, raw_data_df.df)
             IN  /\ ~NoEntities(entities)
                 /\ all_combinable_entities' = entities
                 /\ rows' = rows \o new
                 /\ outcomes' = Append(outcomes, Outcome("rows", Len(new)))
    /\ fetches' = fetches + 1
    /\ i' = i + 1
    /\ UNCHANGED << inputs, pc, raw_data_df, csv_columns, shown, run, previous >>

\* ------------------------------------------------------- after the loop
\* if not rows: st.warning("Ingen data genereret ...")
FinishEmpty ==
    /\ pc = "loop"
    /\ i > Len(selected_products)
    /\ rows = <<>>
    /\ pc' = "done_empty"
    /\ shown' = shown \cup {"warning_no_data"}
    /\ UNCHANGED << inputs, loopvars, run, previous >>

\* else: the table is built and the download is offered
FinishCsv ==
    /\ pc = "loop"
    /\ i > Len(selected_products)
    /\ rows # <<>>
    /\ pc' = "done_csv"
    /\ csv_columns' = ExportColumns(rows)
    /\ shown' = shown \cup {"success", "dataframe", "download_button"}
    /\ UNCHANGED << inputs, raw_data_df, i, product_match_cache, best_match_index,
                    all_combinable_entities, rows, fetches, scans, outcomes, run, previous >>

\* the button is clicked again with the sidebar untouched: the script starts over
Rerun ==
    /\ pc \in {"done_empty", "done_csv"}
    /\ run = 1
    /\ run' = 2
    /\ prev_rows' = rows
    /\ prev_columns' = csv_columns
    /\ prev_outcomes' = outcomes
    /\ pc' = "idle"
    /\ raw_data_df' = NoDf
    /\ i' = 1
    /\ product_match_cache' = <<>>
    /\ best_match_index' = None
    /\ all_combinable_entities' = <<>>
    /\ rows' = <<>>
    /\ csv_columns' = <<>>
    /\ shown' = {}
    /\ fetches' = 0
    /\ scans' = [p \in product_codes |-> 0]
    /\ outcomes' = <<>>
    /\ UNCHANGED inputs

\* one run of the script
Next ==
    \/ GenerateNoProducts
    \/ GenerateNoFrames
    \/ GenerateStop
    \/ GenerateStart
    \/ FetchError
    \/ SkipDisabled
    \/ SkipNoFeatures
    \/ SkipNoCombos
    \/ EmitRows
    \/ FinishEmpty
    \/ FinishCsv

\* one run and a second one on the same input
NextRerun ==
    \/ GenerateNoProducts
    \/ GenerateNoFrames
    \/ GenerateStop
    \/ GenerateStart
    \/ FetchError
    \/ SkipDisabled
    \/ SkipNoFeatures
    \/ SkipNoCombos
    \/ EmitRows
    \/ FinishEmpty
    \/ FinishCsv
    \/ Rerun

Spec == Init /\ [][Next]_vars
SpecMatch == InitMatch /\ [][Next]_vars
SpecRerun == Init /\ [][NextRerun]_vars

\* ================================================================ claims
Done == pc \in {"done_empty", "done_csv"}

\* the feature codes of a product that carry options
UsableCodes(prod) ==
    { f.code : f \in { g \in Range(Catalogue(prod).features) : g.options # <<>> } }

\* the option codes of feature `code` of product `prod`
OptionCodes(prod, code) ==
    UNION { Range(g.options) : g \in { f \in Range(Catalogue(prod).features) : f.code = code } }

\* the options of feature `code` of product `prod`, in the order the service gives them
FeatureOptions(prod, code) ==
    (CHOOSE f \in Range(Catalogue(prod).features) : f.code = code /\ f.options # <<>>).options

ExclusiveSets == Range(MANUAL_EXCLUSIVE_SETS)

\* the exclusive-set features of a product that are merged: those of a set of
\* which the product carries two or more
MergedCodes(prod) ==
    UNION { UsableCodes(prod) \cap s :
            s \in { t \in ExclusiveSets : Cardinality(UsableCodes(prod) \cap t) >= 2 } }

StandaloneCodes(prod) == UsableCodes(prod) \ MergedCodes(prod)

\* ---- C1
\* the Item No Strategy B asks for: of the first row, in table order, among all
\* rows scoring at or above the threshold that also meets both colour conditions
StrategyBItemNo(prod, combo, df) ==
    LET hits == { k \in DOMAIN df :
                    /\ token_set_ratio(prod, df[k].ItemName) >= Threshold
                    /\ check_color_match(RowGet(combo, "BASE"), ApiMaterialColor(combo), df[k]) }
    IN  IF hits = {} THEN ""
        ELSE df[CHOOSE k \in hits : \A j \in hits : k <= j].ItemNo

\* C1: every export row carries the Item No of the first reference row, in
\* table order, among ALL rows at or above the name threshold that satisfy
\* both colour conditions, and the empty string when there is none.
C1_FirstAmongAllPassing ==
    \A k \in DOMAIN rows :
        rows[k].ItemNo = StrategyBItemNo(rows[k].Product, rows[k].cols, raw_data_df.df)

\* ---- C2
IsAlnum(c) == c \in Range(UpperCase) \cup Range(LowerCase) \cup Digits

\* strip every non-alphanumeric character and case-fold
StripFold(cs) == Lower(SelectSeq(cs, IsAlnum))

\* C2: a reference material code and a combination's material colour match
\* exactly when they are equal after removing all whitespace and punctuation
\* and lower-casing ('darkgrey01' matches 'Dark-Grey 01', not 'Dark Grey 02').
C2_MaterialStripFold ==
    \A k \in DOMAIN rows : \A d \in DOMAIN raw_data_df.df :
        ApiMaterialColor(rows[k].cols) # NoValue =>
            ( material_match(ApiMaterialColor(rows[k].cols), raw_data_df.df[d])
              <=> StripFold(Chars(raw_data_df.df[d].Color))
                    = StripFold(Chars(ApiMaterialColor(rows[k].cols))) )

\* ---- C3
Populated(row, code) == RowGet(row.cols, code) # NoValue

\* C3: no export row carries an option for two features of the same exclusive
\* set (never TEXTILE and LEATHER together), and every standalone feature with
\* options is populated, with one of its own options, in every row of its product.
C3_MutualExclusivity ==
    \A k \in DOMAIN rows :
        /\ \A s \in ExclusiveSets :
              Cardinality({ c \in s : Populated(rows[k], c) }) <= 1
        /\ \A c \in StandaloneCodes(rows[k].Product) :
              RowGet(rows[k].cols, c) \in OptionCodes(rows[k].Product, c)

C3_Witness ==
    /\ \E k \in DOMAIN rows :
          rows[k].Product = "CH_01" /\ Populated(rows[k], "TEXTILE")
          /\ ~Populated(rows[k], "LEATHER") /\ Populated(rows[k], "BASE")
    /\ \E k \in DOMAIN rows :
          rows[k].Product = "CH_01" /\ Populated(rows[k], "LEATHER")
          /\ ~Populated(rows[k], "TEXTILE") /\ Populated(rows[k], "BASE")

\* ---- C4
RECURSIVE SumOver(_, _)
SumOver(S, prod) ==
    IF S = {} THEN 0
    ELSE LET c == CHOOSE x \in S : TRUE
         IN  Cardinality(OptionCodes(prod, c)) + SumOver(S \ {c}, prod)

RECURSIVE TimesOver(_, _)
TimesOver(S, prod) ==
    IF S = {} THEN 1
    ELSE LET c == CHOOSE x \in S : TRUE
         IN  Cardinality(OptionCodes(prod, c)) * TimesOver(S \ {c}, prod)

\* product of the entity sizes: the merged entity counts the sum of the option
\* counts of its features, every other feature with options counts its own;
\* no entity at all gives no combination
ClaimedCombinations(prod) ==
    IF UsableCodes(prod) = {} THEN 0
    ELSE (IF MergedCodes(prod) = {} THEN 1 ELSE SumOver(MergedCodes(prod), prod))
         * TimesOver(StandaloneCodes(prod), prod)

Enumerated(o) == o.kind \in {"rows", "no_combos", "no_features"}

\* C4 as stated: for an enabled product whose fetch succeeds, the rows emitted
\* per angle number the product of the sizes of its combinable entities (the
\* merged entity counting the sum of its features' option counts), and none
\* when there is no entity.
C4_CardinalityAsStated ==
    \A k \in DOMAIN outcomes :
        Enumerated(outcomes[k]) =>
            outcomes[k].added = Len(selected_frames) * ClaimedCombinations(outcomes[k].prod)

\* C4 amended: the same, with an empty material allow-list.
C4_CardinalityNoFilter ==
    selected_material_codes = {} => C4_CardinalityAsStated

C4_Witness ==
    /\ selected_material_codes = {}
    /\ Len(selected_frames) = 2
    /\ Len(outcomes) = 2
    /\ outcomes[1] = [prod |-> "CH_01", kind |-> "rows", added |-> 12]
    /\ outcomes[2] = [prod |-> "BOX_4", kind |-> "no_combos", added |-> 0]
    /\ Len(rows) = 12

\* ---- C5
\* the allow-list is set and leaves none of the options of the merged entity
FilterEmptiesGroup(prod) ==
    /\ selected_material_codes # {}
    /\ MergedCodes(prod) # {}
    /\ \A c \in MergedCodes(prod) : OptionCodes(prod, c) \cap selected_material_codes = {}

\* C5: a product whose grouped-exclusive entity loses every option to a
\* non-empty allow-list is skipped and contributes no export row.
C5_EmptyAfterFilterSkipped ==
    \A k \in DOMAIN outcomes :
        (Enumerated(outcomes[k]) /\ FilterEmptiesGroup(outcomes[k].prod)) =>
            outcomes[k].added = 0

\* ---- C6
\* the pairs (feature, option) of the merged features that pass the allow-list
RetainedPairs(prod) ==
    { pair \in UNION { { <<c, o>> : o \in OptionCodes(prod, c) } : c \in MergedCodes(prod) } :
        selected_material_codes = {} \/ pair[2] \in selected_material_codes }

\* the product whose grouping all_combinable_entities holds
LastGrouped ==
    LET ks == { k \in DOMAIN outcomes : outcomes[k].kind \in {"rows", "no_combos"} }
    IN  IF ks = {} THEN "" ELSE outcomes[CHOOSE k \in ks : \A j \in ks : j <= k].prod

IsMergedEntity(entity, prod) == entity[1][1] \in MergedCodes(prod)

AllowListed(pair) == selected_material_codes = {} \/ pair[2] \in selected_material_codes

\* C6: the grouped-exclusive entity holds exactly its options that are in the
\* allow-list (all of them when the list is empty); every standalone entity
\* holds all options of its feature, in their order, also a TEXTILE or LEATHER
\* that stands alone; filtering the grouped entity again changes nothing.
C6_AllowListScoping ==
    LastGrouped # "" =>
        LET prod == LastGrouped
            es   == all_combinable_entities
        IN  /\ \A e \in DOMAIN es :
                  IF IsMergedEntity(es[e], prod)
                  THEN /\ Range(es[e]) = RetainedPairs(prod)
                       /\ Len(es[e]) = Cardinality(RetainedPairs(prod))
                       /\ SelectSeq(es[e], AllowListed) = es[e]
                  ELSE es[e] = [n \in DOMAIN FeatureOptions(prod, es[e][1][1]) |->
                                   <<es[e][1][1], FeatureOptions(prod, es[e][1][1])[n]>>]
            /\ \A c \in StandaloneCodes(prod) :
                  Cardinality({ e \in DOMAIN es : es[e][1][1] = c }) = 1
            /\ Cardinality({ e \in DOMAIN es : IsMergedEntity(es[e], prod) })
                  = (IF RetainedPairs(prod) = {} THEN 0 ELSE 1)

C6_Witness ==
    /\ LastGrouped = "CH_01"
    /\ selected_material_codes = {"L1"}
    /\ all_combinable_entities =
          << << <<"LEATHER", "L1">> >>,
             << <<"BASE", "Natural Oak Finish">>, <<"BASE", "Walnut">> >> >>

\* ---- C7
LastOutcome(os) == os[Len(os)]

\* C7: an iteration whose configuration fetch fails sends one request, adds no
\* row and leaves the rows collected so far as they are, and the loop goes on
\* with the next product; at the end every selected product has been handled.
C7_FetchFailureIsLocal ==
    /\ [][ (Len(outcomes') = Len(outcomes) + 1 /\ LastOutcome(outcomes').kind = "error")
             => /\ rows' = rows
                /\ fetches' = fetches + 1
                /\ LastOutcome(outcomes').added = 0
                /\ pc' = "loop"
                /\ i' = i + 1 ]_vars
    /\ [](Done => /\ Len(outcomes) = Len(selected_products)
                  /\ \A k \in DOMAIN outcomes : outcomes[k].prod = selected_products[k])

C7_Witness ==
    /\ pc = "done_csv"
    /\ Len(outcomes) = 2
    /\ outcomes[1].kind = "error"
    /\ outcomes[2].kind = "rows"
    /\ fetches = 2

\* ---- C8
Unusable(file) == ~file.exists \/ \E c \in RequiredColumns : c \notin file.columns

\* C8: with the reference file missing or lacking a required column the run
\* stops before the loop: no configuration is fetched, no row is built, no
\* download is offered; and the stopped state is not the state of a run that
\* completed with zero rows.
C8_ReferenceFailureIsFatal ==
    /\ Unusable(raw_file) =>
          /\ fetches = 0
          /\ rows = <<>>
          /\ outcomes = <<>>
          /\ "download_button" \notin shown
          /\ pc \in {"idle", "warned", "stopped"}
    /\ pc = "stopped" => (Unusable(raw_file) /\ shown = {"error_raw_data"})
    /\ pc = "done_empty" => ("warning_no_data" \in shown /\ "error_raw_data" \notin shown)

C8_Witness ==
    /\ pc = "stopped"
    /\ raw_file.exists
    /\ "Item Name" \notin raw_file.columns

\* ---- C9
\* C9: within one run the name-similarity scan runs at most once per distinct
\* product code, whatever the scan found and however often the code is selected.
C9_ScanOncePerProduct ==
    \A p \in product_codes : scans[p] <= 1

\* ---- C10
\* C10: a second run on the same input yields the same sequence of export rows,
\* with the same order of feature parameters and of feature columns.
C10_SameOutputOnRerun ==
    (run = 2 /\ Done) => (rows = prev_rows /\ csv_columns = prev_columns)

====
